---- MODULE Spec2Model ----
(***************************************************************************)
(* Model of the CAST ticket analyzer (Adarshsv/mcp-server-web).            *)
(*                                                                         *)
(*   src/server.py    : the FastAPI request pipeline (ticket_details,      *)
(*                      ticket_search, analyze_ticket, search_text and     *)
(*                      their helpers)                                     *)
(*   src/mcp_logic.py : the MCP ticket store adapters                      *)
(*                                                                         *)
(* Texts are sequences of one-character strings, so that the regular       *)
(* expression of extract_keywords, str.lower, str.split, str.strip and     *)
(* str.join are computed character by character as Python computes them.   *)
(* Confidence values are integers in hundredths (0.85 is 85).              *)
(***************************************************************************)
EXTENDS Integers, Sequences, FiniteSets, TLC

VARIABLES
    pc,               \* position of the request coroutine
    req,              \* the request body (TicketRequest / QueryRequest)
    comments,         \* analyze_ticket: text returned by get_ticket_comments
    keywords,         \* analyze_ticket: extract_keywords(comments); search_text: query
    related_tickets,  \* list returned by search_related_tickets
    docs,             \* list returned by search_cast_docs
    response,         \* what the route handler returned to the caller
    calls,            \* outbound calls issued so far, per upstream
    inflight,         \* adapters whose call has been started and has not returned
    timedOut,         \* asyncio.wait_for raised TimeoutError for this request
    failed,           \* adapters of this request whose upstream call failed
    env,              \* process environment: is OPENAI_API_KEY set
    search_reply,     \* what the ticket store answered to the keyword search
    docs_reply,       \* what the document search answered
    worker,           \* the executor job of to_thread: idle, pending (submitted, its
                      \* outbound call not issued yet) or called (call issued)
    sent,             \* the query strings sent to the ticket search and the document search
    kw_in,            \* extract_keywords: the arguments (text, max_words)
    kw_out,           \* extract_keywords: the value returned
    mcp_in,           \* mcp_logic adapters: configuration and upstream replies
    mcp_out           \* mcp_logic adapters: the outcome of the call

vars == <<pc, req, comments, keywords, related_tickets, docs, response, calls,
          inflight, timedOut, failed, env, search_reply, docs_reply, sent, worker,
          kw_in, kw_out, mcp_in, mcp_out>>

pipelineVars == <<pc, req, comments, keywords, related_tickets, docs, response,
                  calls, inflight, timedOut, failed, env, search_reply, docs_reply,
                  sent, worker>>
kwVars  == <<kw_in, kw_out>>
mcpVars == <<mcp_in, mcp_out>>

(***************************************************************************)
(* Bounds of the model.                                                    *)
(***************************************************************************)
MaxChunks  == 3     \* a keyword input text is made of at most this many chunks
MaxWordsArg == 2    \* max_words arguments range over -1 .. MaxWordsArg, and 8
MaxResults == 4     \* length of the list a ticket search answers with
MaxDocs    == 4     \* length of the list the document search answers with

(***************************************************************************)
(* Characters and Python string primitives.                                *)
(***************************************************************************)
UpperSeq == <<"A","B","C","D","E","F","G","H","I","J","K","L","M",
              "N","O","P","Q","R","S","T","U","V","W","X","Y","Z">>
LowerSeq == <<"a","b","c","d","e","f","g","h","i","j","k","l","m",
              "n","o","p","q","r","s","t","u","v","w","x","y","z">>
DigitSeq == <<"0","1","2","3","4","5","6","7","8","9">>

Range(s) == {s[i] : i \in DOMAIN s}

IsLetter(c)   == c \in Range(UpperSeq) \cup Range(LowerSeq)
IsWordChar(c) == IsLetter(c) \/ c \in Range(DigitSeq) \/ c = "_"
\* the characters str.split and str.strip take for whitespace, among those a
\* string of the model can hold (Latin-1): tab, line feed, vertical tab, form
\* feed, carriage return, the separators 1C to 1F, space, next line, no-break space
Whitespace == {"\t", "\n", "", "\f", "\r", "", "", "", "", " ",
               "", " "}

IsSpace(c)    == c \in Whitespace

\* str.lower on one character
LowerChar(c) ==
    IF c \in Range(UpperSeq)
    THEN LowerSeq[CHOOSE i \in DOMAIN UpperSeq : UpperSeq[i] = c]
    ELSE c

\* str.lower
Lower(w) == [i \in DOMAIN w |-> LowerChar(w[i])]

\* list[:n] of Python: a negative n counts from the end
PyPrefix(s, n) ==
    IF n >= 0
    THEN SubSeq(s, 1, IF n < Len(s) THEN n ELSE Len(s))
    ELSE SubSeq(s, 1, IF Len(s) + n > 0 THEN Len(s) + n ELSE 0)

\* sep.join(parts)
RECURSIVE PyJoin(_, _)
PyJoin(parts, sep) ==
    IF Len(parts) = 0 THEN << >>
    ELSE IF Len(parts) = 1 THEN parts[1]
    ELSE parts[1] \o sep \o PyJoin(Tail(parts), sep)

\* str.split() without argument: the maximal runs of non-whitespace
RECURSIVE PySplitFrom(_, _, _)
PySplitFrom(text, i, cur) ==
    IF i > Len(text)
    THEN IF cur = << >> THEN << >> ELSE <<cur>>
    ELSE IF IsSpace(text[i])
         THEN IF cur = << >>
              THEN PySplitFrom(text, i + 1, << >>)
              ELSE <<cur>> \o PySplitFrom(text, i + 1, << >>)
         ELSE PySplitFrom(text, i + 1, Append(cur, text[i]))

PySplit(text) == PySplitFrom(text, 1, << >>)

\* str.strip() without argument
RECURSIVE PyLStrip(_)
PyLStrip(text) ==
    IF text # << >> /\ IsSpace(Head(text)) THEN PyLStrip(Tail(text)) ELSE text

RECURSIVE PyRStrip(_)
PyRStrip(text) ==
    IF text # << >> /\ IsSpace(text[Len(text)])
    THEN PyRStrip(SubSeq(text, 1, Len(text) - 1))
    ELSE text

PyStrip(text) == PyRStrip(PyLStrip(text))

(***************************************************************************)
(* extract_keywords (src/server.py).                                       *)
(***************************************************************************)
W_error   == <<"e","r","r","o","r">>
W_issue   == <<"i","s","s","u","e">>
W_problem == <<"p","r","o","b","l","e","m">>
W_unable  == <<"u","n","a","b","l","e">>
W_failed  == <<"f","a","i","l","e","d">>
W_ticket  == <<"t","i","c","k","e","t">>
W_please  == <<"p","l","e","a","s","e">>
W_CAST    == <<"C","A","S","T">>

blacklist == {W_error, W_issue, W_problem, W_unable, W_failed, W_ticket, W_please}

DefaultMaxWords == 8

\* the end of the maximal run of word characters that starts at position i
RECURSIVE WordRunEnd(_, _)
WordRunEnd(text, i) ==
    IF i + 1 <= Len(text) /\ IsWordChar(text[i + 1])
    THEN WordRunEnd(text, i + 1)
    ELSE i

\* re.findall(r"[A-Za-z][A-Za-z0-9_]{3,}", text), scanning from position i
RECURSIVE FindAllFrom(_, _)
FindAllFrom(text, i) ==
    IF i > Len(text) THEN << >>
    ELSE IF IsLetter(text[i]) /\ WordRunEnd(text, i) - i >= 3
         THEN <<SubSeq(text, i, WordRunEnd(text, i))>>
                  \o FindAllFrom(text, WordRunEnd(text, i) + 1)
         ELSE FindAllFrom(text, i + 1)

FindAll(text) == FindAllFrom(text, 1)

\* [w for w in words if w.lower() not in blacklist]
NotBlacklisted(w) == Lower(w) \notin blacklist

QualifyingWords(text) == SelectSeq(FindAll(text), NotBlacklisted)

\* the list sliced by keywords[:max_words], before it is joined
extract_keywords_list(text, max_words) ==
    LET kws == QualifyingWords(text)
    IN  PyPrefix(IF kws = << >> THEN <<W_CAST>> ELSE kws, max_words)

extract_keywords(text, max_words) ==
    PyJoin(extract_keywords_list(text, max_words), <<" ">>)

(***************************************************************************)
(* Sample texts (ticket comment bodies and queries).                       *)
(***************************************************************************)
T_empty     == << >>
T_blank     == <<" ", " ">>
T_disk      == <<"d","i","s","k">>
T_full      == <<"f","u","l","l">>
T_Error     == <<"E","r","r","o","r">>
T_disk_full == T_disk \o <<" ">> \o T_full
T_crlf      == <<"\r", "\n">>
T_CAST_AIP  == <<"C","A","S","T"," ","A","I","P">>

\* the comment threads the ticket store may answer with (plain_body of each)
CommentThreads == { << >>, <<T_Error>>, <<T_disk, T_full>>, <<T_blank, T_disk>> }

\* the query texts a caller may send to /ticket/search
Queries == { T_empty, T_blank, T_crlf, T_disk, T_disk_full }

\* the ticket ids a caller may send to /ticket/details
RequestTicketIds == {-1, 0, 1}

\* the ids of the tickets the ticket store knows
StoreTicketIds == {1, 2}

HttpStatuses == {200, 401, 500}

\* the sequences over S of length at most n
SeqsUpTo(S, n) == UNION { [1..k -> S] : k \in 0..n }

(***************************************************************************)
(* Upstream replies.  An HTTP reply is the status and the decoded list of  *)
(* the body; exc is a transport exception raised by the client instead.    *)
(***************************************************************************)
CommentsReplies ==
    [exc : {FALSE}, status : {200}, comments : CommentThreads]
    \cup [exc : {FALSE}, status : HttpStatuses \ {200}, comments : {<< >>}]
    \cup [exc : {TRUE}, status : {0}, comments : {<< >>}]

SearchReplies ==
    [exc : {FALSE}, status : {200}, results : SeqsUpTo(StoreTicketIds, MaxResults)]
    \cup [exc : {FALSE}, status : HttpStatuses \ {200}, results : {<< >>}]
    \cup [exc : {TRUE}, status : {0}, results : {<< >>}]

\* a hit of the document search; the second one carries no title
DocHits == { [title |-> "Install", href |-> "https://doc.castsoftware.com/install", body |-> "how to"],
             [href |-> "https://doc.castsoftware.com/faq", body |-> "faq"] }

\* results are the hits the loop has appended; exc tells that the with block was
\* then left by an exception (raised by the provider, by the iteration or by a hit)
DocsReplies == [exc : BOOLEAN, results : SeqsUpTo(DocHits, MaxDocs)]

\* the completion text of the model, as a sequence of sections and markers
AiTexts == { <<"Summary:", "S", "Resolution:", "R">>, <<"Summary:", "S">>, <<"free text">> }

AiReplies == [exc : {FALSE}, text : AiTexts] \cup [exc : {TRUE}, text : {<< >>}]

(***************************************************************************)
(* The adapters of src/server.py.  An adapter returns                      *)
(* [raised |-> FALSE, value |-> v] or [raised |-> TRUE, error |-> str(e)]. *)
(***************************************************************************)
Returned(v) == [raised |-> FALSE, value |-> v]
Raised(e)   == [raised |-> TRUE, error |-> e]

\* httpx Response.raise_for_status
raise_for_status(reply) == reply.status < 200 \/ reply.status >= 300

\* get_ticket_comments, given the reply of the comments request
get_ticket_comments(reply) ==
    IF reply.exc THEN Raised("ConnectError")
    ELSE IF raise_for_status(reply) THEN Raised("HTTPStatusError")
    ELSE Returned(PyJoin(reply.comments, <<"\n">>))

\* keywords of search_related_tickets: query.split() or ["CAST"]
search_terms(query) ==
    IF PySplit(query) = << >> THEN <<W_CAST>> ELSE PySplit(query)

T_zendesk_prefix == <<"t","y","p","e",":","t","i","c","k","e","t"," ","s","t","a","t","u","s",":","s","o","l","v","e","d"," ","(">>
T_OR == <<" ","O","R"," ">>

\* zendesk_query of search_related_tickets
zendesk_query(query) ==
    T_zendesk_prefix \o PyJoin(search_terms(query), T_OR) \o <<")">>

TicketEntry(id) == [id |-> id, url |-> <<"agent/tickets", id>>]

\* the loop of search_related_tickets over results[i..], related collected so far
RECURSIVE RelatedLoop(_, _, _, _)
RelatedLoop(results, i, ticket_id, related) ==
    IF i > Len(results) THEN related
    ELSE IF results[i] # ticket_id
         THEN IF Len(related) + 1 = 3
              THEN Append(related, TicketEntry(results[i]))
              ELSE RelatedLoop(results, i + 1, ticket_id,
                               Append(related, TicketEntry(results[i])))
         ELSE RelatedLoop(results, i + 1, ticket_id, related)

\* the loop without the test t["id"] != ticket_id
RECURSIVE RelatedLoopNoFilter(_, _, _, _)
RelatedLoopNoFilter(results, i, ticket_id, related) ==
    IF i > Len(results) THEN related
    ELSE IF Len(related) + 1 = 3
         THEN Append(related, TicketEntry(results[i]))
         ELSE RelatedLoopNoFilter(results, i + 1, ticket_id,
                                  Append(related, TicketEntry(results[i])))

search_related_tickets_no_filter(reply, ticket_id) ==
    IF reply.exc THEN Raised("ConnectError")
    ELSE IF raise_for_status(reply) THEN Raised("HTTPStatusError")
    ELSE Returned(RelatedLoopNoFilter(reply.results, 1, ticket_id, << >>))

\* search_related_tickets, given the reply of the search request
search_related_tickets(reply, ticket_id) ==
    IF reply.exc THEN Raised("ConnectError")
    ELSE IF raise_for_status(reply) THEN Raised("HTTPStatusError")
    ELSE Returned(RelatedLoop(reply.results, 1, ticket_id, << >>))

fallback_docs ==
    << [title |-> "CAST AIP Documentation Home", url |-> "https://doc.castsoftware.com/", comment |-> ""],
       [title |-> "CAST AIP Knowledge Base", url |-> "https://doc.castsoftware.com/kb/", comment |-> ""],
       [title |-> "CAST AIP Troubleshooting Guide", url |-> "https://doc.castsoftware.com/troubleshoot/", comment |-> ""] >>

T_site == <<"s","i","t","e",":","d","o","c",".","c","a","s","t","s","o","f","t","w","a","r","e",".","c","o","m">>

\* ddg_query of search_cast_docs
ddg_query(query) ==
    T_CAST_AIP \o <<" ">>
        \o (IF PyStrip(query) = << >> THEN T_CAST_AIP ELSE PyStrip(query))
        \o <<" ">> \o T_site

DocEntry(r) ==
    [title   |-> IF "title" \in DOMAIN r THEN r.title ELSE "Untitled",
     url     |-> r.href,
     comment |-> IF "body" \in DOMAIN r THEN r.body ELSE ""]

\* search_cast_docs without the block "if not docs"
search_cast_docs_no_fallback(reply) ==
    LET found == [i \in DOMAIN reply.results |-> DocEntry(reply.results[i])]
    IN  PyPrefix(found, 3)

\* search_cast_docs, given the reply of the document search
search_cast_docs(reply) ==
    LET found == [i \in DOMAIN reply.results |-> DocEntry(reply.results[i])]
        docs0 == IF found = << >> THEN found \o PyPrefix(fallback_docs, 3) ELSE found
    IN  PyPrefix(docs0, 3)

\* the index of the first occurrence of marker in text at or after i, 0 if none
RECURSIVE IndexFrom(_, _, _)
IndexFrom(text, marker, i) ==
    IF i > Len(text) THEN 0
    ELSE IF text[i] = marker THEN i
    ELSE IndexFrom(text, marker, i + 1)

\* get_openai_client: None without a key; else OpenAI(api_key=...), which
\* constructs the client or raises
get_openai_client(key_set, constructs) ==
    IF ~key_set THEN "none" ELSE IF constructs THEN "ok" ELSE "raises"

\* ai_analyze, given the outcome of get_openai_client and the reply of the
\* completion; get_openai_client is called before the try block
ai_analyze(client, reply) ==
    IF client = "raises" THEN Raised("TypeError")
    ELSE IF client = "none"
    THEN Returned([summary |-> <<"[AI analysis skipped]">>, resolution |-> << >>])
    ELSE IF reply.exc
    THEN Returned([summary |-> <<"[AI analysis failed]">>, resolution |-> <<"APIError">>])
    ELSE LET text == reply.text
             s    == IndexFrom(text, "Summary:", 1)
             e    == IF s = 0 THEN 0 ELSE IndexFrom(text, "Resolution:", s + 1)
             r    == IndexFrom(text, "Resolution:", 1)
         IN  Returned([summary    |-> IF s = 0 THEN text
                                      ELSE SubSeq(text, s + 1, IF e = 0 THEN Len(text) ELSE e - 1),
                       resolution |-> IF r = 0 THEN << >> ELSE SubSeq(text, r + 1, Len(text))])

\* round(min(0.4 + len(related_tickets)*0.15, 0.9), 2), in hundredths
Min(a, b) == IF a < b THEN a ELSE b

\* a sign slip in the score
confidence_of_minus(n) == Min(40 - n * 15, 90)

confidence_of(n) == Min(40 + n * 15, 90)

(***************************************************************************)
(* The request pipeline of src/server.py.  The coroutine of a request is   *)
(* suspended at one await at a time; an action is the return of the        *)
(* awaited call followed by the code up to the next await.                 *)
(***************************************************************************)
Awaits == {"get_ticket_comments", "search_related_tickets", "search_cast_docs", "ai_analyze"}

\* calls run by asyncio.to_thread: the thread cannot be cancelled
Threads == {"search_cast_docs", "ai_analyze"}

NoRequest  == [kind |-> "none"]
NoResponse == [pending |-> TRUE]
NoSearchReply == [exc |-> FALSE, status |-> 0, results |-> << >>]
NoDocsReply   == [exc |-> FALSE, results |-> << >>]

PipelineInit ==
    /\ pc = "idle"
    /\ req = NoRequest
    /\ comments = << >>
    /\ keywords = << >>
    /\ related_tickets = << >>
    /\ docs = << >>
    /\ response = NoResponse
    /\ calls = [zendesk |-> 0, ddg |-> 0, openai |-> 0]
    /\ inflight = {}
    /\ timedOut = FALSE
    /\ failed = {}
    /\ search_reply = NoSearchReply
    /\ docs_reply = NoDocsReply
    /\ sent = [zendesk_query |-> << >>, ddg_query |-> << >>]
    /\ worker = "idle"

KwIdle  == kw_in = [text |-> << >>, max_words |-> DefaultMaxWords] /\ kw_out = [called |-> FALSE, value |-> << >>]
McpIdle == mcp_in = [fn |-> "none"] /\ mcp_out = [called |-> FALSE, at |-> "idle"]

\* the handler of the routes: except Exception
on_exception(e) == [error |-> e]

\* the ticket id search_related_tickets is called with
exclude_id == IF req.kind = "ticket" THEN req.ticket_id ELSE -1

\* the dictionary returned by analyze_ticket / search_text
result_of(request, ai_result, related, related_docs) ==
    IF request.kind = "ticket"
    THEN [summary |-> ai_result.summary,
          recommended_solution |-> ai_result.resolution,
          confidence |-> confidence_of(Len(related)),
          primary_ticket |-> [id |-> request.ticket_id, primary |-> TRUE],
          related_tickets |-> related,
          related_docs |-> related_docs]
    ELSE [query |-> request.query,
          summary |-> ai_result.summary,
          recommended_solution |-> ai_result.resolution,
          confidence |-> confidence_of(Len(related)),
          related_tickets |-> related,
          related_docs |-> related_docs]

\* the handler of the routes: except asyncio.TimeoutError
on_timeout == [error |-> "Request timed out"]

\* the await raised e: the route answers with the error and the request ends
Abort(adapter, e) ==
    /\ response' = on_exception(e)
    /\ failed' = failed \cup {adapter}
    /\ pc' = "done"
    /\ inflight' = {}

\* POST /ticket/details: analyze_ticket starts and awaits get_ticket_comments
ticket_details ==
    \E ticket_id \in RequestTicketIds :
        /\ pc = "idle"
        /\ req' = [kind |-> "ticket", ticket_id |-> ticket_id]
        /\ calls' = [calls EXCEPT !.zendesk = @ + 1]
        /\ inflight' = {"get_ticket_comments"}
        /\ pc' = "get_ticket_comments"
        /\ UNCHANGED <<comments, keywords, related_tickets, docs, response, timedOut,
                       failed, env, search_reply, docs_reply, sent, worker, kwVars, mcpVars>>

\* POST /ticket/search: search_text starts and awaits search_related_tickets
ticket_search ==
    \E query \in Queries :
        /\ pc = "idle"
        /\ req' = [kind |-> "query", query |-> query]
        /\ keywords' = query
        /\ sent' = [sent EXCEPT !.zendesk_query = zendesk_query(query)]
        /\ calls' = [calls EXCEPT !.zendesk = @ + 1]
        /\ inflight' = {"search_related_tickets"}
        /\ pc' = "search_related_tickets"
        /\ UNCHANGED <<comments, related_tickets, docs, response, timedOut,
                       failed, env, search_reply, docs_reply, worker, kwVars, mcpVars>>

\* get_ticket_comments returns or raises; then extract_keywords, then the search starts
comments_return ==
    \E reply \in CommentsReplies :
        LET r == get_ticket_comments(reply) IN
        /\ pc = "get_ticket_comments"
        /\ IF r.raised
           THEN /\ Abort("get_ticket_comments", r.error)
                /\ UNCHANGED <<comments, keywords, calls, sent>>
           ELSE /\ comments' = r.value
                /\ keywords' = extract_keywords(r.value, DefaultMaxWords)
                /\ sent' = [sent EXCEPT !.zendesk_query =
                                zendesk_query(extract_keywords(r.value, DefaultMaxWords))]
                /\ calls' = [calls EXCEPT !.zendesk = @ + 1]
                /\ inflight' = {"search_related_tickets"}
                /\ pc' = "search_related_tickets"
                /\ UNCHANGED <<response, failed>>
        /\ UNCHANGED <<req, related_tickets, docs, timedOut, env, search_reply,
                       docs_reply, worker, kwVars, mcpVars>>

\* search_related_tickets returns or raises; then the coroutine hands
\* search_cast_docs to the executor and awaits it
search_return ==
    \E reply \in SearchReplies :
        LET r == search_related_tickets(reply, exclude_id) IN
        /\ pc = "search_related_tickets"
        /\ search_reply' = reply
        /\ IF r.raised
           THEN /\ Abort("search_related_tickets", r.error)
                /\ UNCHANGED <<related_tickets, worker>>
           ELSE /\ related_tickets' = r.value
                /\ worker' = "pending"
                /\ inflight' = {"search_cast_docs"}
                /\ pc' = "search_cast_docs"
                /\ UNCHANGED <<response, failed>>
        /\ UNCHANGED <<req, comments, keywords, docs, calls, sent, timedOut, env,
                       docs_reply, kwVars, mcpVars>>

\* the worker thread of search_cast_docs reaches ddgs.text: the document search
\* is issued, also when the coroutine has been cancelled meanwhile
docs_call ==
    /\ "search_cast_docs" \in inflight
    /\ worker = "pending"
    /\ worker' = "called"
    /\ calls' = [calls EXCEPT !.ddg = @ + 1]
    /\ sent' = [sent EXCEPT !.ddg_query = ddg_query(keywords)]
    /\ UNCHANGED <<pc, req, comments, keywords, related_tickets, docs, response, inflight,
                   timedOut, failed, env, search_reply, docs_reply, kwVars, mcpVars>>

\* search_cast_docs returns to the coroutine (it never raises): after the document
\* search answered, or with DDGS() having raised before the search was issued;
\* then the coroutine hands ai_analyze to the executor and awaits it
docs_return ==
    \E reply \in DocsReplies :
        /\ pc = "search_cast_docs"
        /\ \/ worker = "called"
           \/ worker = "pending" /\ reply = [exc |-> TRUE, results |-> << >>]
        /\ docs_reply' = reply
        /\ docs' = search_cast_docs(reply)
        /\ failed' = IF reply.exc THEN failed \cup {"search_cast_docs"} ELSE failed
        /\ worker' = "pending"
        /\ inflight' = {"ai_analyze"}
        /\ pc' = "ai_analyze"
        /\ UNCHANGED <<req, comments, keywords, related_tickets, response, calls, timedOut,
                       env, search_reply, sent, kwVars, mcpVars>>

\* the worker thread of ai_analyze has a client and reaches
\* client.chat.completions.create: the completion is requested
ai_call ==
    /\ "ai_analyze" \in inflight
    /\ worker = "pending"
    /\ get_openai_client(env.OPENAI_API_KEY, TRUE) = "ok"
    /\ worker' = "called"
    /\ calls' = [calls EXCEPT !.openai = @ + 1]
    /\ UNCHANGED <<pc, req, comments, keywords, related_tickets, docs, response, inflight,
                   timedOut, failed, env, search_reply, docs_reply, sent, kwVars, mcpVars>>

\* ai_analyze returns or raises to the coroutine: after the completion answered,
\* or without a call when there is no client or its constructor raised; the
\* result is assembled and returned, an exception goes to the route
ai_return ==
    \E reply \in AiReplies :
        LET client == get_openai_client(env.OPENAI_API_KEY, worker = "called")
            r      == ai_analyze(client, reply)
        IN
        /\ pc = "ai_analyze"
        /\ worker \in {"pending", "called"}
        /\ IF r.raised
           THEN Abort("ai_analyze", r.error)
           ELSE /\ response' = result_of(req, r.value, related_tickets, docs)
                /\ failed' = IF client = "ok" /\ reply.exc
                             THEN failed \cup {"ai_analyze"} ELSE failed
                /\ inflight' = {}
                /\ pc' = "done"
        /\ worker' = "idle"
        /\ UNCHANGED <<req, comments, keywords, related_tickets, docs, calls, timedOut,
                       env, search_reply, docs_reply, sent, kwVars, mcpVars>>

\* asyncio.wait_for(..., timeout=40) expires while the coroutine is suspended:
\* the coroutine is cancelled, a thread it was waiting for is not
deadline ==
    /\ pc \in Awaits
    /\ timedOut' = TRUE
    /\ response' = on_timeout
    /\ inflight' = inflight \cap Threads
    /\ pc' = "done"
    /\ UNCHANGED <<req, comments, keywords, related_tickets, docs, calls, failed,
                   env, search_reply, docs_reply, sent, worker, kwVars, mcpVars>>

\* the job abandoned at the deadline ends in the executor (cancelled before it
\* ran, or run to its end): nobody waits for its result, and no later call of
\* the request is started
thread_return ==
    /\ pc = "done"
    /\ timedOut
    /\ inflight # {}
    /\ inflight' = {}
    /\ worker' = "idle"
    /\ UNCHANGED <<pc, req, comments, keywords, related_tickets, docs, response, calls,
                   timedOut, failed, env, search_reply, docs_reply, sent, kwVars, mcpVars>>

Init ==
    /\ PipelineInit
    /\ env \in [OPENAI_API_KEY : BOOLEAN]
    /\ KwIdle
    /\ McpIdle

Next ==
    \/ ticket_details
    \/ ticket_search
    \/ comments_return
    \/ search_return
    \/ docs_call
    \/ docs_return
    \/ ai_call
    \/ ai_return
    \/ deadline
    \/ thread_return

Spec == Init /\ [][Next]_vars

(***************************************************************************)
(* extract_keywords as a function of its arguments.                        *)
(***************************************************************************)
Chunks == { W_error, T_Error, T_disk, <<" ">>, <<"\r">>, <<"1">>, <<"a","b">>, <<"_">> }

RECURSIVE Flatten(_)
Flatten(parts) == IF parts = << >> THEN << >> ELSE Head(parts) \o Flatten(Tail(parts))

KwTexts == { Flatten(parts) : parts \in SeqsUpTo(Chunks, MaxChunks) }

KwMaxWords == (-1 .. MaxWordsArg) \cup {DefaultMaxWords}

InitKw ==
    /\ PipelineInit
    /\ env = [OPENAI_API_KEY |-> FALSE]
    /\ McpIdle
    /\ kw_in \in [text : KwTexts, max_words : KwMaxWords]
    /\ kw_out = [called |-> FALSE, value |-> << >>]

call_extract_keywords ==
    /\ ~kw_out.called
    /\ kw_out' = [called |-> TRUE, value |-> extract_keywords(kw_in.text, kw_in.max_words)]
    /\ UNCHANGED <<kw_in, pipelineVars, mcpVars>>

NextKw == call_extract_keywords

SpecKw == InitKw /\ [][NextKw]_vars

(***************************************************************************)
(* The ticket store adapters of src/mcp_logic.py, and search_related_      *)
(* tickets of src/server.py, as functions of the configuration and of the  *)
(* replies of the ticket store.  A reply carries the status, whether the   *)
(* body decodes as JSON, and whether the decoded object has the expected   *)
(* key ("results", "ticket", "comments") with its items.                   *)
(***************************************************************************)
McpStatuses == {200, 401, 403, 404, 500}

McpReplies(Items) ==
    [exc : {FALSE}, status : {200}, json : {TRUE}, has_key : {TRUE}, items : Items]
    \cup [exc : {FALSE}, status : McpStatuses \ {200}, json : BOOLEAN,
          has_key : {FALSE}, items : {<< >>}]
    \cup [exc : {TRUE}, status : {0}, json : {FALSE}, has_key : {FALSE}, items : {<< >>}]

\* resp.json().get(key, [])
json_get(resp) == IF resp.has_key THEN resp.items ELSE << >>

McpText(t) == [raised |-> FALSE, kind |-> "text", text |-> t]

\* search_zendesk_tickets of mcp_logic.py
search_zendesk_tickets(cookie, resp) ==
    IF ~cookie THEN McpText("Error: Zendesk cookie missing.")
    ELSE IF resp.exc THEN Raised("ConnectError")
    ELSE IF resp.status = 401 THEN McpText("Error: Cookie expired.")
    ELSE IF ~resp.json THEN Raised("JSONDecodeError")
    ELSE IF json_get(resp) # << >>
         THEN [raised |-> FALSE, kind |-> "tickets", lines |-> PyPrefix(json_get(resp), 5)]
         ELSE McpText("No tickets found.")

\* get_ticket_details of mcp_logic.py: t_resp answers the ticket request,
\* c_resp the comments request
get_ticket_details(cookie, t_resp, c_resp) ==
    IF ~cookie THEN McpText("Error: Zendesk cookie missing.")
    ELSE IF t_resp.exc THEN Raised("ConnectError")
    ELSE IF t_resp.status = 401 THEN McpText("Error: Cookie expired.")
    ELSE IF t_resp.status = 404 THEN McpText("Ticket not found.")
    ELSE IF ~t_resp.json THEN Raised("JSONDecodeError")
    ELSE IF c_resp.exc THEN Raised("ConnectError")
    ELSE IF ~c_resp.json THEN Raised("JSONDecodeError")
    ELSE IF ~t_resp.has_key THEN Raised("KeyError")
    ELSE [raised |-> FALSE, kind |-> "details", ticket |-> t_resp.items,
          history |-> json_get(c_resp)]

\* the reply as search_related_tickets of server.py reads it
AsSearchReply(resp) == [exc |-> resp.exc, status |-> resp.status, results |-> json_get(resp)]

McpLists == SeqsUpTo({1, 2}, 2)

McpInputs ==
    [fn : {"search_zendesk_tickets"}, cookie : BOOLEAN, resp : McpReplies(McpLists)]
    \cup [fn : {"get_ticket_details"}, cookie : BOOLEAN,
          resp : McpReplies({<<1>>}), c_resp : McpReplies(McpLists)]
    \cup [fn : {"search_related_tickets"}, ticket_id : {1},
          resp : McpReplies(McpLists)]

InitMcp ==
    /\ PipelineInit
    /\ env = [OPENAI_API_KEY |-> FALSE]
    /\ KwIdle
    /\ mcp_in \in McpInputs
    /\ mcp_out = [called |-> FALSE, at |-> "idle"]

\* the coroutine returned out
McpDone(out) == mcp_out' = [called |-> TRUE, at |-> "done", out |-> out]

\* the coroutine is suspended at the await of the request to path
McpAwait(path) == mcp_out' = [called |-> FALSE, at |-> path]

\* get_ticket_details returns before it requests the comments
returns_after_ticket(t_resp) ==
    t_resp.exc \/ t_resp.status \in {401, 404} \/ ~t_resp.json

\* search_zendesk_tickets up to its await: the cookie test, then the search request
call_search_zendesk_tickets ==
    /\ mcp_out.at = "idle"
    /\ mcp_in.fn = "search_zendesk_tickets"
    /\ IF ~mcp_in.cookie
       THEN McpDone(search_zendesk_tickets(mcp_in.cookie, mcp_in.resp))
       ELSE McpAwait("search.json")
    /\ UNCHANGED <<mcp_in, pipelineVars, kwVars>>

\* the search request is answered: search_zendesk_tickets runs to its return
search_zendesk_tickets_reply ==
    /\ mcp_out.at = "search.json"
    /\ mcp_in.fn = "search_zendesk_tickets"
    /\ McpDone(search_zendesk_tickets(mcp_in.cookie, mcp_in.resp))
    /\ UNCHANGED <<mcp_in, pipelineVars, kwVars>>

\* get_ticket_details up to its first await: the cookie test, then the ticket request
call_get_ticket_details ==
    /\ mcp_out.at = "idle"
    /\ mcp_in.fn = "get_ticket_details"
    /\ IF ~mcp_in.cookie
       THEN McpDone(get_ticket_details(mcp_in.cookie, mcp_in.resp, mcp_in.c_resp))
       ELSE McpAwait("ticket.json")
    /\ UNCHANGED <<mcp_in, pipelineVars, kwVars>>

\* the ticket request is answered: return, or the comments request
get_ticket_details_ticket_reply ==
    /\ mcp_out.at = "ticket.json"
    /\ IF returns_after_ticket(mcp_in.resp)
       THEN McpDone(get_ticket_details(mcp_in.cookie, mcp_in.resp, mcp_in.c_resp))
       ELSE McpAwait("comments.json")
    /\ UNCHANGED <<mcp_in, pipelineVars, kwVars>>

\* the comments request is answered: get_ticket_details runs to its return
get_ticket_details_comments_reply ==
    /\ mcp_out.at = "comments.json"
    /\ McpDone(get_ticket_details(mcp_in.cookie, mcp_in.resp, mcp_in.c_resp))
    /\ UNCHANGED <<mcp_in, pipelineVars, kwVars>>

\* search_related_tickets of server.py up to its await: the search request
call_search_related_tickets ==
    /\ mcp_out.at = "idle"
    /\ mcp_in.fn = "search_related_tickets"
    /\ McpAwait("related search.json")
    /\ UNCHANGED <<mcp_in, pipelineVars, kwVars>>

\* the search request is answered: search_related_tickets runs to its return
search_related_tickets_reply ==
    /\ mcp_out.at = "related search.json"
    /\ McpDone(search_related_tickets(AsSearchReply(mcp_in.resp), mcp_in.ticket_id))
    /\ UNCHANGED <<mcp_in, pipelineVars, kwVars>>

NextMcp ==
    \/ call_search_zendesk_tickets
    \/ search_zendesk_tickets_reply
    \/ call_get_ticket_details
    \/ get_ticket_details_ticket_reply
    \/ get_ticket_details_comments_reply
    \/ call_search_related_tickets
    \/ search_related_tickets_reply

SpecMcp == InitMcp /\ [][NextMcp]_vars

(***************************************************************************)
(* Properties.                                                             *)
(***************************************************************************)
ResultKeys == {"summary", "recommended_solution", "confidence", "related_tickets", "related_docs"}

\* the response has the schema of a normal result
IsResult(r) == ResultKeys \subseteq DOMAIN r

Ids(tickets) == [i \in DOMAIN tickets |-> tickets[i].id]
Urls(ds)     == [i \in DOMAIN ds |-> ds[i].url]
NoDup(s)     == \A i, j \in DOMAIN s : i # j => s[i] # s[j]
Count(s, x)  == Cardinality({i \in DOMAIN s : s[i] = x})

\* the first n elements of a list
FirstN(s, n) == SubSeq(s, 1, IF n < Len(s) THEN n ELSE Len(s))

\* the document search has returned to the coroutine
DocsReturned == pc = "ai_analyze" \/ IsResult(response)

\* the request is malformed: a ticket id below 1, or an empty or blank query
Malformed(r) ==
    \/ r.kind = "ticket" /\ r.ticket_id < 1
    \/ r.kind = "query" /\ PyStrip(r.query) = << >>

\* the request is one the service accepts
WellFormed(r) == r.kind # "none" /\ ~Malformed(r)

\* C1: every result carries a confidence in [0, 0.9] (0 .. 90 hundredths),
\* however many tickets and documents the upstream sources returned.
C1_ConfidenceInRange ==
    IsResult(response) => response.confidence \in 0..90

\* a result built from a ticket search that answered with more tickets than the cap
C1_Witness ==
    /\ IsResult(response)
    /\ Len(search_reply.results) > 3
    /\ Len(response.related_tickets) = 3
    /\ response.confidence = 85

\* C2: for a ticket-id request the id of the requested ticket never appears in
\* related_tickets, wherever and however often the ticket store lists it.
C2_SelfExcluded ==
    req.kind = "ticket" =>
        /\ \A i \in DOMAIN related_tickets : related_tickets[i].id # req.ticket_id
        /\ IsResult(response) =>
             \A i \in DOMAIN response.related_tickets :
                 response.related_tickets[i].id # req.ticket_id

\* the ticket store listed the requested ticket twice, not first, among others
C2_Witness ==
    /\ req.kind = "ticket"
    /\ IsResult(response)
    /\ Count(search_reply.results, req.ticket_id) >= 2
    /\ search_reply.results[1] # req.ticket_id
    /\ response.related_tickets # << >>

\* C3: related_tickets holds no id twice, related_docs holds no url twice, and
\* neither list is longer than the cap of 3.
C3_DedupAndCap ==
    (WellFormed(req) /\ IsResult(response)) =>
        /\ NoDup(Ids(response.related_tickets))
        /\ NoDup(Urls(response.related_docs))
        /\ Len(response.related_tickets) <= 3
        /\ Len(response.related_docs) <= 3

\* C4 as stated: when the document search raises or finds nothing,
\* search_cast_docs returns the fixed fallback list; the related_docs of a result
\* has 1 to 3 entries.
C4_FallbackWheneverRaises ==
    /\ DocsReturned =>
          /\ (docs_reply.exc \/ docs_reply.results = << >>) => docs = fallback_docs
          /\ Len(docs) \in 1..3
    /\ IsResult(response) =>
          /\ response.related_docs = docs
          /\ Len(response.related_docs) \in 1..3

\* C4 amended: when the document search ends, by an exception or not, without a
\* hit collected, search_cast_docs returns the fixed fallback list; when it raises
\* after hits were collected it returns those hits; the related_docs of a result
\* has 1 to 3 entries, also when the document search raised.
C4_DocsFallback ==
    /\ DocsReturned =>
          /\ docs_reply.results = << >> => docs = fallback_docs
          /\ docs_reply.results # << >> =>
                /\ docs # fallback_docs
                /\ Urls(docs) = FirstN([i \in DOMAIN docs_reply.results |->
                                            docs_reply.results[i].href], 3)
          /\ Len(docs) \in 1..3
    /\ IsResult(response) =>
          /\ response.related_docs = docs
          /\ Len(response.related_docs) \in 1..3

\* a result assembled after the document search raised before any hit
C4_Witness ==
    /\ IsResult(response)
    /\ docs_reply.exc
    /\ docs_reply.results = << >>
    /\ "search_cast_docs" \in failed
    /\ response.related_docs = fallback_docs

\* C5: the failure of one adapter never aborts the request: a request that ends
\* without the deadline firing ends with a result of the normal schema.
C5_NeverAborts ==
    (WellFormed(req) /\ pc = "done" /\ ~timedOut) => IsResult(response)

\* C6: when the deadline fires with an adapter outstanding, the request
\* ends with a normal result, related_docs being the fallback list if the
\* document search is the outstanding one.
C6_ResultAtDeadline ==
    (WellFormed(req) /\ timedOut) =>
        /\ IsResult(response)
        /\ "search_cast_docs" \in inflight => response.related_docs = fallback_docs

\* C7: a malformed request is rejected before any adapter call: no outbound call
\* to the ticket store, the document search or the summarizer occurs.
C7_NoCallsWhenMalformed ==
    Malformed(req) => calls = [zendesk |-> 0, ddg |-> 0, openai |-> 0]

\* C8: once the keywords are known the document search and the summarizer are
\* started together: while the document search is in flight the summarizer has
\* been started as well (it cannot have returned, its return ends the request).
C8_StartedConcurrently ==
    (WellFormed(req) /\ pc \in Awaits /\ "search_cast_docs" \in inflight)
        => "ai_analyze" \in inflight

\* C9: extract_keywords never returns an empty keyword set: the default token
\* alone when no token qualifies, else the first max_words qualifying tokens.
C9_NeverEmpty ==
    kw_out.called =>
        /\ kw_out.value # << >>
        /\ PySplit(kw_out.value) # << >>
        /\ QualifyingWords(kw_in.text) = << >> => PySplit(kw_out.value) = <<W_CAST>>
        /\ QualifyingWords(kw_in.text) # << >> =>
             PySplit(kw_out.value) = FirstN(QualifyingWords(kw_in.text), kw_in.max_words)

\* the ticket store did not answer the call successfully
Broken(in) ==
    \/ "cookie" \in DOMAIN in /\ ~in.cookie
    \/ in.resp.exc \/ in.resp.status # 200
    \/ "c_resp" \in DOMAIN in /\ (in.c_resp.exc \/ in.c_resp.status # 200)

\* what an adapter returns for a successful search without matches
ZeroMatches == { McpText("No tickets found."), Returned(<< >>) }

\* C10: a broken ticket store (missing credential, 401, any non-success status,
\* transport failure) never yields the outcome of a successful search with zero
\* matches.
C10_BrokenIsNotEmpty ==
    (mcp_out.called /\ Broken(mcp_in)) => mcp_out.out \notin ZeroMatches

====
